---- MODULE Spec2Model ----
(***************************************************************************)
(* Model of the multipart form builder (DefaultFormBuilder), its MIME      *)
(* sniffer (detectMimeType) and the two request builders that use them     *)
(* (Client.CreateEditImage, Client.CreateVariImage) of src/image.go.       *)
(*                                                                         *)
(* Go strings are sequences of tokens: a token is one of the three         *)
(* characters the code treats specially (the path separator, the double    *)
(* quote, the backslash) or a run of ordinary characters such as "c.png".  *)
(* File contents are sequences of bytes (0..255).  The output sink is the  *)
(* sequence of items written to it: boundary lines, part headers, part     *)
(* bodies and the closing boundary line.                                   *)
(***************************************************************************)
EXTENDS Integers, Sequences, FiniteSets, TLC

VARIABLES fb, ncalls, calls, allOk, last, ct0, pc, request, steps, sent

vars == <<fb, ncalls, calls, allOk, last, ct0, pc, request, steps, sent>>

(***************************************************************************)
(* Bounds of the model.                                                    *)
(***************************************************************************)
MaxCalls == 4
MaxNameLen == 3
MaxShortRead == 2
MaxPayload == 2

(***************************************************************************)
(* Program constants.                                                      *)
(***************************************************************************)
SniffLen == 512
DebugPeekLen == 16
CopyBufLen == 32768

Q == "\""
BS == "\\"
Sep == "/"

Min(a, b) == IF a <= b THEN a ELSE b

CreateImageModelDallE2 == <<"dall-e-2">>
CreateImageModelGptImage1 == <<"gpt-image-1">>
CreateImageResponseFormatURL == <<"url">>
CreateImageQualityHigh == <<"high">>
CreateImageSize1024x1024 == <<"1024x1024">>

(***************************************************************************)
(* escapeQuotes: strings.NewReplacer("\\", "\\\\", `"`, "\\\"").Replace    *)
(***************************************************************************)
RECURSIVE escapeQuotes(_)
escapeQuotesNoBackslash(s) ==
  IF s = <<>> THEN <<>>
  ELSE (IF Head(s) = Q THEN <<BS, Q>> ELSE <<Head(s)>>)
         \o escapeQuotes(Tail(s))

escapeQuotes(s) ==
  IF s = <<>> THEN <<>>
  ELSE (IF Head(s) = BS THEN <<BS, BS>>
        ELSE IF Head(s) = Q THEN <<BS, Q>>
        ELSE <<Head(s)>>) \o escapeQuotes(Tail(s))

(***************************************************************************)
(* filepath.Base on a platform whose only separator is "/": "" gives ".",  *)
(* trailing separators are dropped, the text after the last separator is   *)
(* kept, and a path of separators only gives "/".                          *)
(***************************************************************************)
RECURSIVE StripTrailingSep(_)
StripTrailingSep(p) ==
  IF p # <<>> /\ p[Len(p)] = Sep THEN StripTrailingSep(SubSeq(p, 1, Len(p) - 1))
  ELSE p

RECURSIVE LastElement(_)
LastElement(p) ==
  IF p = <<>> THEN <<>>
  ELSE IF p[Len(p)] = Sep THEN <<>>
  ELSE LastElement(SubSeq(p, 1, Len(p) - 1)) \o <<p[Len(p)]>>

Base(path) ==
  IF path = <<>> THEN <<".">>
  ELSE LET stripped == StripTrailingSep(path)
           elem == LastElement(stripped)
       IN IF elem = <<>> THEN <<Sep>> ELSE elem

(***************************************************************************)
(* http.DetectContentType on at most SniffLen bytes, restricted to the     *)
(* signatures the inputs of this model can match: the image signatures,    *)
(* the text signature (no binary control byte) and the fallback.           *)
(***************************************************************************)
SigBMP == <<66, 77>>
SigGIF87 == <<71, 73, 70, 56, 55, 97>>
SigGIF89 == <<71, 73, 70, 56, 57, 97>>
SigPNG == <<137, 80, 78, 71, 13, 10, 26, 10>>
SigJPEG == <<255, 216, 255>>
SigRIFF == <<82, 73, 70, 70>>
SigWEBPVP == <<87, 69, 66, 80, 86, 80>>

HasPrefixAt(data, off, sig) ==
  /\ Len(data) >= off + Len(sig)
  /\ \A i \in 1..Len(sig) : data[off + i] = sig[i]

IsBinaryByte(b) ==
  \/ b <= 8
  \/ b = 11
  \/ (14 <= b /\ b <= 26)
  \/ (28 <= b /\ b <= 31)

DetectContentType(bytes) ==
  LET data == IF Len(bytes) > SniffLen THEN SubSeq(bytes, 1, SniffLen) ELSE bytes
  IN IF HasPrefixAt(data, 0, SigBMP) THEN "image/bmp"
     ELSE IF HasPrefixAt(data, 0, SigGIF87) \/ HasPrefixAt(data, 0, SigGIF89)
       THEN "image/gif"
     ELSE IF HasPrefixAt(data, 0, SigRIFF) /\ HasPrefixAt(data, 8, SigWEBPVP)
       THEN "image/webp"
     ELSE IF HasPrefixAt(data, 0, SigPNG) THEN "image/png"
     ELSE IF HasPrefixAt(data, 0, SigJPEG) THEN "image/jpeg"
     ELSE IF \A i \in 1..Len(data) : ~IsBinaryByte(data[i])
       THEN "text/plain; charset=utf-8"
     ELSE "application/octet-stream"

(***************************************************************************)
(* An io.Reader.  data is what the source holds and pos how much of it has *)
(* been read.  failAt >= 0: the source fails (an error other than io.EOF)  *)
(* once failAt bytes were delivered; NoFail: it ends with io.EOF.  first   *)
(* is the most the first Read returns (short reads are legal), withErr     *)
(* whether the final condition is reported together with the last bytes    *)
(* or by the Read after them.  hasName / name: the Name() method of a      *)
(* named reader or an *os.File.  kind: "reader", "file" (a seekable        *)
(* *os.File) or "pipe" (an *os.File that cannot seek).                     *)
(***************************************************************************)
NoFail == -1

End(r) == IF r.failAt = NoFail THEN Len(r.data) ELSE r.failAt

Read(r, len) ==
  LET limit == IF r.started THEN len ELSE Min(len, r.first)
      n == Min(limit, End(r) - r.pos)
      final == (r.pos + n = End(r)) /\ (n = 0 \/ r.withErr)
  IN [bytes |-> SubSeq(r.data, r.pos + 1, r.pos + n),
      err |-> IF ~final THEN "nil"
              ELSE IF r.failAt = NoFail THEN "EOF" ELSE "err",
      r |-> [r EXCEPT !.pos = r.pos + n, !.started = TRUE]]

\* (*os.File).Seek(0, 0): a pipe refuses and keeps its position.
SeekStart(r) == IF r.kind = "file" THEN [r EXCEPT !.pos = 0] ELSE r

(***************************************************************************)
(* io.Copy from a plain reader: Read until io.EOF (success) or another     *)
(* error, handing every byte read to the destination.                      *)
(***************************************************************************)
RECURSIVE CopyFrom(_, _)
CopyFrom(r, acc) ==
  LET res == Read(r, CopyBufLen)
  IN IF res.err = "EOF" THEN [bytes |-> acc \o res.bytes, err |-> "nil"]
     ELSE IF res.err = "err" THEN [bytes |-> acc \o res.bytes, err |-> "err"]
     ELSE CopyFrom(res.r, acc \o res.bytes)

(***************************************************************************)
(* io.MultiReader(strings.NewReader(prefix), r): the prefix, then r.  It   *)
(* has no Name() method, whatever r is.                                    *)
(***************************************************************************)
MultiReader(prefix, r) ==
  [multi |-> TRUE, prefix |-> prefix, src |-> r, hasName |-> FALSE, name |-> <<>>]

Plain(r) ==
  [multi |-> FALSE, prefix |-> <<>>, src |-> r, hasName |-> r.hasName, name |-> r.name]

\* io.Copy from either kind of reader.
CopyAll(rd) == CopyFrom(rd.src, rd.prefix)

(***************************************************************************)
(* detectMimeType                                                          *)
(***************************************************************************)
detectMimeTypeDropsPrefix(r) ==
  LET res == Read(r, SniffLen)
  IN IF res.err = "err" THEN [mimeType |-> "", reader |-> Plain(res.r), err |-> "err"]
     ELSE [mimeType |-> DetectContentType(res.bytes),
           reader |-> MultiReader(<<>>, res.r),
           err |-> "nil"]

detectMimeType(r) ==
  LET res == Read(r, SniffLen)
  IN IF res.err = "err" THEN [mimeType |-> "", reader |-> Plain(res.r), err |-> "err"]
     ELSE [mimeType |-> DetectContentType(res.bytes),
           reader |-> MultiReader(res.bytes, res.r),
           err |-> "nil"]

(***************************************************************************)
(* multipart.Writer, the state of a DefaultFormBuilder: the boundary       *)
(* chosen by multipart.NewWriter, the items written to the sink so far,    *)
(* whether a part is open (lastpart) and whether a write to the open part  *)
(* failed (the part's stored write error, which closing the part           *)
(* returns).  sink says where the sink starts to refuse writes during a    *)
(* call: "ok" (nowhere), "header" or "body"; a refused write accepts no    *)
(* byte.                                                                   *)
(***************************************************************************)
NewFormBuilder(boundary) ==
  [boundary |-> boundary, out |-> <<>>, lastpart |-> FALSE, we |-> FALSE]

BoundaryItem(w) == [kind |-> "boundary", token |-> w.boundary, lead |-> w.lastpart]

CloseItem(w) == [kind |-> "close", token |-> w.boundary]

HeaderItem(disp, ctype) == [kind |-> "header", disp |-> disp, ctype |-> ctype]

BodyItem(bytes) == [kind |-> "body", data |-> bytes, text |-> <<>>]

ValueItem(value) == [kind |-> "body", data |-> <<>>, text |-> value]

FieldDisposition(fieldname) ==
  <<"form-data; name=", Q>> \o escapeQuotes(fieldname) \o <<Q>>

FileDisposition(fieldname, filename) ==
  <<"form-data; name=", Q>> \o escapeQuotes(fieldname)
    \o <<Q, "; filename=", Q>> \o escapeQuotes(filename) \o <<Q>>

\* (*multipart.Writer).CreatePart
CreatePartWrongBoundary(w, header, sink) ==
  IF w.lastpart /\ w.we THEN [w |-> w, err |-> "err"]
  ELSE IF sink = "header" THEN [w |-> w, err |-> "err"]
  ELSE [w |-> [w EXCEPT !.out = @ \o <<[BoundaryItem(w) EXCEPT !.token = "other"], header>>,
                        !.lastpart = TRUE, !.we = FALSE],
        err |-> "nil"]

CreatePartPrepends(w, header, sink) ==
  IF w.lastpart /\ w.we THEN [w |-> w, err |-> "err"]
  ELSE IF sink = "header" THEN [w |-> w, err |-> "err"]
  ELSE [w |-> [w EXCEPT !.out = <<BoundaryItem(w), header>> \o @,
                        !.lastpart = TRUE, !.we = FALSE],
        err |-> "nil"]

CreatePart(w, header, sink) ==
  IF w.lastpart /\ w.we THEN [w |-> w, err |-> "err"]
  ELSE IF sink = "header" THEN [w |-> w, err |-> "err"]
  ELSE [w |-> [w EXCEPT !.out = @ \o <<BoundaryItem(w), header>>,
                        !.lastpart = TRUE, !.we = FALSE],
        err |-> "nil"]

\* (*multipart.part).Write of one field value
PartWrite(w, item, sink) ==
  IF sink = "body" THEN [w |-> [w EXCEPT !.we = TRUE], err |-> "err"]
  ELSE [w |-> [w EXCEPT !.out = Append(@, item)], err |-> "nil"]

\* io.Copy(fieldWriter, r): nothing is written when the reader delivers
\* nothing; the bytes read before a read error are written.
CopyToPart(w, rd, sink) ==
  LET res == CopyAll(rd)
  IN IF res.bytes # <<>> /\ sink = "body"
       THEN [w |-> [w EXCEPT !.we = TRUE], err |-> "err"]
     ELSE [w |-> [w EXCEPT !.out = Append(@, BodyItem(res.bytes))], err |-> res.err]

(***************************************************************************)
(* DefaultFormBuilder                                                      *)
(***************************************************************************)
WriteField(w, fieldname, value, sink) ==
  LET p == CreatePart(w, HeaderItem(FieldDisposition(fieldname), ""), sink)
  IN IF p.err # "nil" THEN p ELSE PartWrite(p.w, ValueItem(value), sink)

DefaultFilename(mimeType) ==
  CASE mimeType = "image/png" -> <<"image.png">>
    [] mimeType \in {"image/jpeg", "image/jpg"} -> <<"image.jpg">>
    [] mimeType = "image/gif" -> <<"image.gif">>
    [] mimeType = "image/webp" -> <<"image.webp">>
    [] mimeType = "image/bmp" -> <<"image.bmp">>
    [] mimeType = "image/tiff" -> <<"image.tiff">>
    [] OTHER -> <<"file.bin">>

ResolveFilenameNoDefault(rd, filename, mimeType) ==
  IF rd.hasName /\ filename = <<>> THEN rd.name ELSE filename

ResolveFilename(rd, filename, mimeType) ==
  LET named == IF rd.hasName /\ filename = <<>> THEN rd.name ELSE filename
  IN IF named = <<>> THEN DefaultFilename(mimeType) ELSE named

CreateFormFileReaderWithMimeType(w, fieldname, rd, filename, mimeType, sink) ==
  LET fname == ResolveFilename(rd, filename, mimeType)
      h == HeaderItem(FileDisposition(fieldname, Base(fname)), mimeType)
      p == CreatePart(w, h, sink)
  IN IF p.err # "nil" THEN p ELSE CopyToPart(p.w, rd, sink)

CreateFormFileReader(w, fieldname, r, filename, sink) ==
  LET d == detectMimeType(r)
  IN IF d.err # "nil" THEN [w |-> w, err |-> "err"]
     ELSE CreateFormFileReaderWithMimeType(w, fieldname, d.reader, filename,
                                           d.mimeType, sink)

\* (*multipart.Writer).CreateFormFile: the file name as given, and the
\* fixed content type application/octet-stream.
createFormFile(w, fieldname, rd, filename, sink) ==
  IF filename = <<>> THEN [w |-> w, err |-> "err"]
  ELSE LET h == HeaderItem(FileDisposition(fieldname, filename),
                           "application/octet-stream")
           p == CreatePart(w, h, sink)
       IN IF p.err # "nil" THEN p ELSE CopyToPart(p.w, rd, sink)

CreateFormFile(w, fieldname, file, sink) ==
  createFormFile(w, fieldname, Plain(file), file.name, sink)

\* (*multipart.Writer).Close: closes the open part, writes the closing
\* boundary line.  It keeps no record of having been called.
Close(w, sink) ==
  IF w.lastpart /\ w.we THEN [w |-> w, err |-> "err"]
  ELSE IF sink # "ok" THEN [w |-> [w EXCEPT !.lastpart = FALSE], err |-> "err"]
  ELSE [w |-> [w EXCEPT !.out = Append(@, CloseItem(w)), !.lastpart = FALSE],
        err |-> "nil"]

FormDataContentType(w) == <<"multipart/form-data; boundary=", w.boundary>>

(***************************************************************************)
(* Inputs.                                                                 *)
(***************************************************************************)
MkReader(data, first, withErr, failAt, hasName, name, kind) ==
  [data |-> data, pos |-> 0, started |-> FALSE, first |-> first,
   withErr |-> withErr, failAt |-> failAt, hasName |-> hasName, name |-> name,
   kind |-> kind]

Payload(k) == [i \in 1..k |-> 200 + i]

DataPNG == SigPNG \o Payload(MaxPayload)
DataJPEG == SigJPEG \o Payload(MaxPayload)
DataGIF == SigGIF89 \o Payload(MaxPayload)
DataWEBP == SigRIFF \o <<1, 2, 3, 4>> \o SigWEBPVP \o Payload(MaxPayload)
DataBMP == SigBMP \o Payload(MaxPayload)
DataBinary == <<0, 1>>
DataText == <<104, 105>>
\* more than the sniffer reads at once
DataLong == SigPNG \o [i \in 1..(SniffLen + MaxPayload - Len(SigPNG)) |-> i % 256]

Datas ==
  {<<>>, DataPNG, DataJPEG, DataGIF, DataWEBP, DataBMP, DataBinary, DataText, DataLong}

FirstsFor(d) == {k \in 0..MaxShortRead : k < Len(d)} \cup {SniffLen}

FailsFor(d) == {NoFail} \cup {k \in {0, 1, Len(d)} : k <= Len(d)}

Tokens == {"a", Sep, Q, BS}

Strings(n) == UNION {[1..k -> Tokens] : k \in 0..n}

NameCat == <<"cat.png">>
NameInDir == <<"d", Sep, "cat.png">>

MimeTypes ==
  {"", "image/png", "image/jpeg", "image/jpg", "image/gif", "image/webp",
   "image/bmp", "image/tiff", "application/octet-stream"}

Boundaries == {"b1", "b2"}

Sinks == {"ok", "header", "body"}

NoReader == MkReader(<<>>, 0, FALSE, NoFail, FALSE, <<>>, "reader")

NoCall ==
  [op |-> "none", fieldname |-> <<>>, r |-> NoReader, filename |-> <<>>,
   mimeType |-> "", sink |-> "ok", err |-> "nil", at |-> 0]

NoRequest ==
  [op |-> "none", Image |-> NoReader, ImageNil |-> TRUE, Mask |-> NoReader, MaskNil |-> TRUE,
   Prompt |-> <<>>, Model |-> <<>>, N |-> 0, Size |-> <<>>,
   ResponseFormat |-> <<>>, Quality |-> <<>>, User |-> <<>>]

\* what the source still holds: the content a successful call copies
Content(r) == SubSeq(r.data, r.pos + 1, Len(r.data))

FilePart(fieldname, r) ==
  [name |-> fieldname, file |-> TRUE, data |-> Content(r), text |-> <<>>]

FieldPart(fieldname, value) ==
  [name |-> fieldname, file |-> FALSE, data |-> <<>>, text |-> value]

(***************************************************************************)
(* The form builder under test: NewFormBuilder, then calls in any order.   *)
(* calls lists the parts added by the calls that succeeded, allOk says     *)
(* that no part-adding call failed, last is the most recent call with its  *)
(* arguments and result (at: the length of the output before it), ct0 is   *)
(* FormDataContentType() right after construction.                         *)
(***************************************************************************)
InitBuilder ==
  /\ \E b \in Boundaries :
       /\ fb = NewFormBuilder(b)
       /\ ct0 = FormDataContentType(NewFormBuilder(b))
  /\ ncalls = 0
  /\ calls = <<>>
  /\ allOk = TRUE
  /\ last = NoCall

Init ==
  /\ InitBuilder
  /\ pc = "idle"
  /\ request = NoRequest
  /\ steps = <<>>
  /\ sent = FALSE

Called(op, fieldname, r, filename, mimeType, sink, res, part) ==
  /\ fb' = res.w
  /\ ncalls' = ncalls + 1
  /\ last' = [op |-> op, fieldname |-> fieldname, r |-> r, filename |-> filename,
              mimeType |-> mimeType, sink |-> sink, err |-> res.err,
              at |-> Len(fb.out)]
  /\ calls' = IF res.err = "nil" /\ op # "Close" THEN Append(calls, part) ELSE calls
  /\ allOk' = (allOk /\ (res.err = "nil" \/ op = "Close"))
  /\ UNCHANGED <<ct0, pc, request, steps, sent>>

DoWriteField(limit, names, values, sinks) ==
  /\ ncalls < limit
  /\ \E fieldname \in names, value \in values, sink \in sinks :
       Called("WriteField", fieldname, NoReader, <<>>, "", sink,
              WriteField(fb, fieldname, value, sink),
              FieldPart(fieldname, value))

DoCreateFormFile(limit, names, files, sinks) ==
  /\ ncalls < limit
  /\ \E fieldname \in names, file \in files, sink \in sinks :
       Called("CreateFormFile", fieldname, file, file.name, "", sink,
              CreateFormFile(fb, fieldname, file, sink),
              FilePart(fieldname, file))

DoCreateFormFileReader(limit, names, readers, filenames, sinks) ==
  /\ ncalls < limit
  /\ \E fieldname \in names, r \in readers, filename \in filenames, sink \in sinks :
       Called("CreateFormFileReader", fieldname, r, filename, "", sink,
              CreateFormFileReader(fb, fieldname, r, filename, sink),
              FilePart(fieldname, r))

DoCreateFormFileReaderWithMimeType(limit, names, readers, filenames, mimeTypes, sinks) ==
  /\ ncalls < limit
  /\ \E fieldname \in names, r \in readers, filename \in filenames,
        mimeType \in mimeTypes, sink \in sinks :
       Called("CreateFormFileReaderWithMimeType", fieldname, r, filename,
              mimeType, sink,
              CreateFormFileReaderWithMimeType(fb, fieldname, Plain(r), filename,
                                               mimeType, sink),
              FilePart(fieldname, r))

DoClose(limit, sinks) ==
  /\ ncalls < limit
  /\ \E sink \in sinks :
       Called("Close", <<>>, NoReader, <<>>, "", sink, Close(fb, sink),
              FieldPart(<<>>, <<>>))

(***************************************************************************)
(* Spec: sequences of up to MaxCalls calls on one builder.                 *)
(***************************************************************************)
SeqReaders ==
  {MkReader(DataPNG, SniffLen, FALSE, fa, FALSE, <<>>, "reader") :
     fa \in {NoFail, Len(SigPNG)}}

SeqFiles == {MkReader(DataText, SniffLen, TRUE, NoFail, TRUE, NameCat, "file")}

Next ==
  \/ DoWriteField(MaxCalls, {<<"prompt">>}, {<<>>, <<"a cat">>}, {"ok", "body"})
  \/ DoCreateFormFile(MaxCalls, {<<"file">>}, SeqFiles, {"ok"})
  \/ DoCreateFormFileReader(MaxCalls, {<<"image">>}, SeqReaders, {<<>>}, {"ok"})
  \/ DoCreateFormFileReaderWithMimeType(MaxCalls, {<<"mask">>},
       {MkReader(DataBinary, 1, FALSE, NoFail, FALSE, <<>>, "reader")},
       {<<"m.png">>}, {"image/png"}, {"ok", "header"})
  \/ DoClose(MaxCalls, {"ok", "header"})

Spec == Init /\ [][Next]_vars

(***************************************************************************)
(* SpecFile: one file part added to a fresh builder, the arguments drawn   *)
(* from the input sets, then Close.                                        *)
(***************************************************************************)
SniffReaders ==
  {MkReader(d, f, we, fa, hn, NameCat, "reader") :
     d \in Datas, f \in UNION {FirstsFor(x) : x \in Datas}, we \in BOOLEAN,
     fa \in UNION {FailsFor(x) : x \in Datas}, hn \in BOOLEAN}

FileReaders ==
  {r \in SniffReaders : r.first \in FirstsFor(r.data) /\ r.failAt \in FailsFor(r.data)}

NamedReaders ==
  {MkReader(d, SniffLen, TRUE, fa, TRUE, nm, "reader") :
     d \in {<<>>, DataPNG}, fa \in {NoFail, 0}, nm \in {<<>>, NameCat, NameInDir}}
  \cup {MkReader(d, SniffLen, TRUE, fa, FALSE, <<>>, "reader") :
     d \in {<<>>, DataPNG}, fa \in {NoFail, 0}}

\* open files: the name is the path given to os.Open, or empty (os.NewFile)
OsFiles ==
  {MkReader(d, SniffLen, FALSE, NoFail, TRUE, nm, "file") :
     d \in {<<>>, DataPNG},
     nm \in {n \in Strings(MaxNameLen) : n = <<>> \/ n[Len(n)] # Sep}}

NextFile ==
  \/ DoCreateFormFile(1, {<<"image">>}, OsFiles, Sinks)
  \/ DoCreateFormFileReader(1, {<<"image">>}, FileReaders, Strings(1), Sinks)
  \/ DoCreateFormFileReaderWithMimeType(1, {<<"image">>}, NamedReaders,
       Strings(MaxNameLen), MimeTypes, {"ok"})
  \/ (ncalls = 1 /\ DoClose(2, {"ok", "header"}))

SpecFile == Init /\ [][NextFile]_vars

(***************************************************************************)
(* Client.CreateEditImage and Client.CreateVariImage, one builder call per *)
(* step.  request.op says which of the two runs.  steps lists the calls    *)
(* made with their results; pc = "returned" once the function has          *)
(* returned, "panicked" after the nil-reader dereference.  The builder     *)
(* comes from c.createFormBuilder, which callers can replace: a step's     *)
(* sink may refuse the write.  newRequest and sendRequest succeed or fail. *)
(***************************************************************************)
Itoa(n) == <<ToString(n)>>

IncludeResponseFormat(req) ==
  req.ResponseFormat # <<>> /\ req.Model # CreateImageModelGptImage1

IncludeQualityAnyModel(req) == req.Quality # <<>>

IncludeQuality(req) ==
  req.Quality # <<>> /\ req.Model # CreateImageModelGptImage1

\* if err != nil { return }
AfterStepIgnoresError(err, next) == next

AfterStep(err, next) == IF err # "nil" THEN "returned" ELSE next

\* The debug block of CreateEditImage for an *os.File image: Seek(0, 0), one
\* Read of DebugPeekLen bytes, Seek(0, 0); the results are only printed.
DebugPeek(r) ==
  IF r.kind = "reader" THEN r
  ELSE SeekStart(Read(SeekStart(r), DebugPeekLen).r)

ClientImages ==
  {MkReader(DataPNG, SniffLen, FALSE, NoFail, FALSE, <<>>, "reader"),
   MkReader(DataPNG, 1, TRUE, 1, TRUE, NameCat, "reader"),
   MkReader(DataJPEG, SniffLen, FALSE, NoFail, TRUE, NameCat, "file"),
   MkReader(DataGIF, SniffLen, FALSE, NoFail, TRUE, NameCat, "pipe")}

ClientMasks ==
  {MkReader(DataPNG, SniffLen, FALSE, NoFail, FALSE, <<>>, "reader"),
   MkReader(DataPNG, SniffLen, FALSE, 0, FALSE, <<>>, "reader")}

Requests ==
  {[op |-> op, Image |-> img.r, ImageNil |-> img.nil, Mask |-> msk.r,
    MaskNil |-> msk.nil, Prompt |-> <<"a cat">>, Model |-> model, N |-> 1,
    Size |-> CreateImageSize1024x1024, ResponseFormat |-> rf, Quality |-> q,
    User |-> user] :
     op \in {"edit", "vari"},
     img \in {[r |-> r, nil |-> FALSE] : r \in ClientImages}
               \cup {[r |-> NoReader, nil |-> TRUE]},
     msk \in {[r |-> r, nil |-> FALSE] : r \in ClientMasks}
               \cup {[r |-> NoReader, nil |-> TRUE]},
     model \in {<<>>, CreateImageModelDallE2, CreateImageModelGptImage1},
     rf \in {<<>>, CreateImageResponseFormatURL},
     q \in {<<>>, CreateImageQualityHigh},
     user \in {<<>>, <<"user-1">>}}

InitClient ==
  /\ InitBuilder
  /\ request \in {r \in Requests : r.op = "vari" => (r.MaskNil /\ r.Quality = <<>>
                                                     /\ r.User = <<>>)}
  /\ pc = IF request.op = "edit" THEN "edit:image" ELSE "vari:image"
  /\ steps = <<>>
  /\ sent = FALSE

Step(name, res, next) ==
  /\ fb' = res.w
  /\ steps' = Append(steps, [step |-> name, err |-> res.err])
  /\ pc' = AfterStep(res.err, next)
  /\ UNCHANGED <<ncalls, calls, allOk, last, ct0, request, sent>>

Skip(next) ==
  /\ pc' = next
  /\ UNCHANGED <<fb, ncalls, calls, allOk, last, ct0, request, steps, sent>>

Panic ==
  /\ pc' = "panicked"
  /\ UNCHANGED <<fb, ncalls, calls, allOk, last, ct0, request, steps, sent>>

FieldStep(at, name, value, next) ==
  /\ pc = at
  /\ \E sink \in {"ok", "header", "body"} :
       Step(name, WriteField(fb, <<name>>, value, sink), next)

EditImage ==
  /\ pc = "edit:image"
  /\ IF request.ImageNil THEN Panic
     ELSE \E sink \in {"ok", "header"} :
            Step("image",
                 CreateFormFileReader(fb, <<"image">>, DebugPeek(request.Image),
                                      <<>>, sink),
                 "edit:mask")

EditMask ==
  /\ pc = "edit:mask"
  /\ IF request.MaskNil THEN Skip("edit:prompt")
     ELSE \E sink \in {"ok", "header"} :
            Step("mask",
                 CreateFormFileReader(fb, <<"mask">>,
                                      IF request.Mask.kind = "reader"
                                        THEN request.Mask
                                        ELSE SeekStart(request.Mask),
                                      <<>>, sink),
                 "edit:prompt")

EditPrompt == FieldStep("edit:prompt", "prompt", request.Prompt, "edit:model")

EditModel ==
  IF request.Model # <<>>
    THEN FieldStep("edit:model", "model", request.Model, "edit:n")
    ELSE pc = "edit:model" /\ Skip("edit:n")

EditN == FieldStep("edit:n", "n", Itoa(request.N), "edit:size")

EditSize == FieldStep("edit:size", "size", request.Size, "edit:response_format")

EditResponseFormat ==
  IF IncludeResponseFormat(request)
    THEN FieldStep("edit:response_format", "response_format",
                   request.ResponseFormat, "edit:quality")
    ELSE pc = "edit:response_format" /\ Skip("edit:quality")

EditQuality ==
  IF IncludeQuality(request)
    THEN FieldStep("edit:quality", "quality", request.Quality, "edit:user")
    ELSE pc = "edit:quality" /\ Skip("edit:user")

EditUser ==
  IF request.User # <<>>
    THEN FieldStep("edit:user", "user", request.User, "close")
    ELSE pc = "edit:user" /\ Skip("close")

VariImage ==
  /\ pc = "vari:image"
  /\ IF request.ImageNil THEN Panic
     ELSE \E sink \in {"ok", "header"} :
            Step("image",
                 CreateFormFileReader(fb, <<"image">>, request.Image, <<>>, sink),
                 "vari:n")

VariN == FieldStep("vari:n", "n", Itoa(request.N), "vari:size")

VariSize == FieldStep("vari:size", "size", request.Size, "vari:response_format")

VariResponseFormat ==
  FieldStep("vari:response_format", "response_format", request.ResponseFormat,
            "close")

BuilderClose ==
  /\ pc = "close"
  /\ \E sink \in {"ok", "header"} : Step("Close", Close(fb, sink), "newRequest")

NewRequest ==
  /\ pc = "newRequest"
  /\ \E err \in {"nil", "err"} : Step("newRequest", [w |-> fb, err |-> err], "send")

SendRequest ==
  /\ pc = "send"
  /\ sent' = TRUE
  /\ \E err \in {"nil", "err"} :
       /\ steps' = Append(steps, [step |-> "sendRequest", err |-> err])
       /\ pc' = "returned"
  /\ UNCHANGED <<fb, ncalls, calls, allOk, last, ct0, request>>

NextClient ==
  \/ EditImage \/ EditMask \/ EditPrompt \/ EditModel \/ EditN \/ EditSize
  \/ EditResponseFormat \/ EditQuality \/ EditUser
  \/ VariImage \/ VariN \/ VariSize \/ VariResponseFormat
  \/ BuilderClose \/ NewRequest \/ SendRequest

SpecClient == InitClient /\ [][NextClient]_vars

(***************************************************************************)
(* Reading the output back.                                                *)
(***************************************************************************)
\* A quoted string starting at s[i], up to its closing quote: a backslash
\* makes the next token literal.
RECURSIVE ReadQuoted(_, _, _)
ReadQuoted(s, i, acc) ==
  IF i > Len(s) THEN [ok |-> FALSE, val |-> acc, next |-> i]
  ELSE IF s[i] = Q THEN [ok |-> TRUE, val |-> acc, next |-> i + 1]
  ELSE IF s[i] = BS
    THEN IF i + 1 > Len(s) THEN [ok |-> FALSE, val |-> acc, next |-> i]
         ELSE ReadQuoted(s, i + 2, Append(acc, s[i + 1]))
  ELSE ReadQuoted(s, i + 1, Append(acc, s[i]))

BadDisposition ==
  [ok |-> FALSE, name |-> <<>>, hasFilename |-> FALSE, filename |-> <<>>]

\* A Content-Disposition value parsed: form-data; name="..."[; filename="..."]
ParseDisposition(d) ==
  IF Len(d) < 2 \/ d[1] # "form-data; name=" \/ d[2] # Q THEN BadDisposition
  ELSE LET nm == ReadQuoted(d, 3, <<>>)
       IN IF ~nm.ok THEN BadDisposition
          ELSE IF nm.next = Len(d) + 1
            THEN [ok |-> TRUE, name |-> nm.val, hasFilename |-> FALSE,
                  filename |-> <<>>]
          ELSE IF Len(d) >= nm.next + 1 /\ d[nm.next] = "; filename="
                  /\ d[nm.next + 1] = Q
            THEN LET fn == ReadQuoted(d, nm.next + 2, <<>>)
                 IN IF fn.ok /\ fn.next = Len(d) + 1
                      THEN [ok |-> TRUE, name |-> nm.val, hasFilename |-> TRUE,
                            filename |-> fn.val]
                      ELSE BadDisposition
          ELSE BadDisposition

Malformed ==
  [name |-> <<>>, file |-> FALSE, data |-> <<>>, text |-> <<"malformed">>]

\* The parts of an output stream, in stream order: each a boundary line, a
\* header, a body.  Closing boundary lines are passed over.
RECURSIVE PartsOf(_)
PartsOf(s) ==
  IF s = <<>> THEN <<>>
  ELSE IF s[1].kind = "close" THEN PartsOf(Tail(s))
  ELSE IF Len(s) >= 3 /\ s[1].kind = "boundary" /\ s[2].kind = "header"
          /\ s[3].kind = "body"
    THEN LET d == ParseDisposition(s[2].disp)
         IN <<IF d.ok THEN [name |-> d.name, file |-> d.hasFilename,
                            data |-> s[3].data, text |-> s[3].text]
              ELSE Malformed>> \o PartsOf(SubSeq(s, 4, Len(s)))
  ELSE <<Malformed>>

FileOps == {"CreateFormFile", "CreateFormFileReader", "CreateFormFileReaderWithMimeType"}

ReaderOps == {"CreateFormFileReader", "CreateFormFileReaderWithMimeType"}

\* The last call wrote a part header.
PartEmitted == last.op \in FileOps /\ Len(fb.out) >= last.at + 2

EmittedHeader == fb.out[last.at + 2]

Emitted == ParseDisposition(EmittedHeader.disp)

HasToken(s, t) == \E i \in 1..Len(s) : s[i] = t

(***************************************************************************)
(* C1.  Sniff non-destructiveness: when detectMimeType returns a reader,   *)
(* the prefix it holds followed by what the source has not yet delivered   *)
(* is the input b; copying the returned reader to its end yields b; and    *)
(* the body of the part CreateFormFileReader writes is b.                  *)
(***************************************************************************)
SniffNonDestructive ==
  last.op = "CreateFormFileReader" =>
    LET d == detectMimeType(last.r)
    IN /\ d.err = "nil" =>
            /\ d.reader.prefix \o Content(d.reader.src) = last.r.data
            /\ last.r.failAt = NoFail =>
                 CopyAll(d.reader) = [bytes |-> last.r.data, err |-> "nil"]
       /\ last.err = "nil" =>
            /\ Len(fb.out) = last.at + 3
            /\ fb.out[last.at + 3] = BodyItem(last.r.data)

\* a source longer than the sniff buffer whose first Read was short
SniffNonDestructiveWitness ==
  /\ last.op = "CreateFormFileReader"
  /\ last.err = "nil"
  /\ last.r.data = DataLong
  /\ last.r.first = 1
  /\ detectMimeType(last.r).reader.prefix = <<DataLong[1]>>
  /\ fb.out[last.at + 3].data = DataLong

(***************************************************************************)
(* C7.  Default filename derivation.  As claimed: every file part added    *)
(* with an empty filename carries the filename the table gives for its     *)
(* content type, and no file part is written with an empty or missing      *)
(* filename.                                                               *)
(***************************************************************************)
TableFilename(ctype) ==
  CASE ctype = "image/png" -> <<"image.png">>
    [] ctype = "image/jpeg" -> <<"image.jpg">>
    [] ctype = "image/jpg" -> <<"image.jpg">>
    [] ctype = "image/gif" -> <<"image.gif">>
    [] ctype = "image/webp" -> <<"image.webp">>
    [] ctype = "image/bmp" -> <<"image.bmp">>
    [] ctype = "image/tiff" -> <<"image.tiff">>
    [] OTHER -> <<"file.bin">>

FilenameNeverEmpty ==
  PartEmitted => (Emitted.ok /\ Emitted.hasFilename /\ Emitted.filename # <<>>)

DefaultFilenameAsClaimed ==
  /\ (PartEmitted /\ last.op \in ReaderOps /\ last.filename = <<>>) =>
       Emitted.filename = TableFilename(EmittedHeader.ctype)
  /\ FilenameNeverEmpty

\* C7 as amended: the same, for readers that supply no name of their own.
DefaultFilenameDerivation ==
  /\ (/\ PartEmitted
      /\ last.op \in ReaderOps
      /\ last.filename = <<>>
      /\ ~(last.r.hasName /\ last.r.name # <<>>)) =>
       Emitted.filename = TableFilename(EmittedHeader.ctype)
  /\ FilenameNeverEmpty

DefaultFilenameWitness ==
  /\ PartEmitted
  /\ last.op = "CreateFormFileReader"
  /\ last.filename = <<>>
  /\ last.r.data = DataWEBP
  /\ last.err = "nil"
  /\ EmittedHeader.ctype = "image/webp"
  /\ Emitted.filename = <<"image.webp">>

(***************************************************************************)
(* C8.  Path stripping: every file part's emitted filename is the base     *)
(* name of the filename supplied (for CreateFormFile, the file's name),    *)
(* and contains no path separator.                                         *)
(***************************************************************************)
PathStripping ==
  (PartEmitted /\ last.filename # <<>>) =>
    /\ Emitted.ok
    /\ Emitted.filename = Base(last.filename)
    /\ ~HasToken(Emitted.filename, Sep)

(***************************************************************************)
(* C9.  Filename escaping round trip.  As claimed: for a filename holding  *)
(* a quote or a backslash, the header of the part written by               *)
(* CreateFormFileReaderWithMimeType parses (every quote inside the quoted  *)
(* values escaped) and its filename is the filename supplied.              *)
(***************************************************************************)
NeedsEscaping(s) == HasToken(s, Q) \/ HasToken(s, BS)

EscapingRoundTripAsClaimed ==
  (PartEmitted /\ last.op \in ReaderOps /\ NeedsEscaping(last.filename)) =>
    /\ Emitted.ok
    /\ Emitted.name = last.fieldname
    /\ Emitted.filename = last.filename

\* C9 as amended: the filename read back is the base name of the filename
\* supplied, which is the filename itself when it has no path separator.
EscapingRoundTrip ==
  (PartEmitted /\ last.op \in ReaderOps /\ NeedsEscaping(last.filename)) =>
    /\ Emitted.ok
    /\ Emitted.name = last.fieldname
    /\ Emitted.filename = Base(last.filename)
    /\ ~HasToken(last.filename, Sep) => Emitted.filename = last.filename

EscapingRoundTripWitness ==
  /\ PartEmitted
  /\ last.op = "CreateFormFileReaderWithMimeType"
  /\ last.filename = <<"a", Q, BS>>
  /\ EmittedHeader.disp =
       <<"form-data; name=", Q, "image", Q, "; filename=", Q,
         "a", BS, Q, BS, BS, Q>>
  /\ Emitted.filename = <<"a", Q, BS>>

(***************************************************************************)
(* C10.  Name from the reader: a part added through CreateFormFileReader   *)
(* with an empty filename and a reader that has a name carries that name   *)
(* (its base name) as its filename.                                        *)
(***************************************************************************)
NameFromReader ==
  (/\ PartEmitted
   /\ last.op = "CreateFormFileReader"
   /\ last.filename = <<>>
   /\ last.r.hasName
   /\ last.r.name # <<>>) =>
    Emitted.filename = Base(last.r.name)

(***************************************************************************)
(* C3.  Order preservation: while every part-adding call has succeeded,    *)
(* the parts of the output stream are the parts added, in call order,      *)
(* each a boundary line, its header and its whole body.                    *)
(***************************************************************************)
OrderPreserved == allOk => PartsOf(fb.out) = calls

\* two fields, then a file
OrderPreservedWitness ==
  /\ allOk
  /\ Len(calls) = 3
  /\ ~calls[1].file /\ ~calls[2].file /\ calls[3].file
  /\ calls[1].text # calls[2].text
  /\ PartsOf(fb.out) = calls

(***************************************************************************)
(* C4.  Finalize is terminal: the output holds at most one closing         *)
(* boundary line, and nothing follows it.                                  *)
(***************************************************************************)
FinalizeTerminal ==
  \A i \in 1..Len(fb.out) : fb.out[i].kind = "close" => i = Len(fb.out)

(***************************************************************************)
(* C6.  Single boundary: FormDataContentType() is in every state the       *)
(* value it had at construction, and its token is the token of every       *)
(* boundary line and closing boundary line written.                        *)
(***************************************************************************)
SingleBoundary ==
  /\ FormDataContentType(fb) = ct0
  /\ \A i \in 1..Len(fb.out) :
       fb.out[i].kind \in {"boundary", "close"} =>
         <<"multipart/form-data; boundary=", fb.out[i].token>> = ct0

SingleBoundaryWitness ==
  /\ Len(fb.out) >= 7
  /\ fb.out[1].kind = "boundary" /\ fb.out[4].kind = "boundary"
  /\ fb.out[7].kind = "close"
  /\ FormDataContentType(fb) = ct0

(***************************************************************************)
(* C2.  Policy omission: in CreateEditImage with Model gpt-image-1 the     *)
(* form never holds a part named quality or response_format, whatever      *)
(* request.Quality and request.ResponseFormat are.                         *)
(***************************************************************************)
PartNames ==
  {ParseDisposition(fb.out[i].disp).name :
     i \in {j \in 1..Len(fb.out) : fb.out[j].kind = "header"}}

PolicyOmission ==
  (request.op = "edit" /\ request.Model = CreateImageModelGptImage1) =>
    /\ <<"quality">> \notin PartNames
    /\ <<"response_format">> \notin PartNames

PolicyOmissionWitness ==
  /\ request.op = "edit"
  /\ request.Model = CreateImageModelGptImage1
  /\ request.Quality # <<>>
  /\ request.ResponseFormat # <<>>
  /\ sent
  /\ <<"model">> \in PartNames
  /\ <<"quality">> \notin PartNames

(***************************************************************************)
(* C5.  A failed encode never reaches the network: a step that fails is    *)
(* the last step made and the function has returned; sendRequest is made   *)
(* only after every step the request calls for, Close and newRequest       *)
(* included, was made in order and succeeded.                              *)
(***************************************************************************)
StepNames == [i \in 1..Len(steps) |-> steps[i].step]

Opt(cond, name) == IF cond THEN <<name>> ELSE <<>>

RequiredSteps ==
  IF request.op = "edit"
    THEN <<"image">> \o Opt(~request.MaskNil, "mask") \o <<"prompt">>
           \o Opt(request.Model # <<>>, "model") \o <<"n", "size">>
           \o Opt(request.ResponseFormat # <<>>
                    /\ request.Model # CreateImageModelGptImage1, "response_format")
           \o Opt(request.Quality # <<>>
                    /\ request.Model # CreateImageModelGptImage1, "quality")
           \o Opt(request.User # <<>>, "user")
           \o <<"Close", "newRequest", "sendRequest">>
    ELSE <<"image", "n", "size", "response_format", "Close", "newRequest",
           "sendRequest">>

FailedEncodeNeverSent ==
  /\ \A i \in 1..Len(steps) :
       steps[i].err # "nil" => (i = Len(steps) /\ pc = "returned")
  /\ \A i \in 1..Len(steps) :
       (steps[i].err # "nil" /\ steps[i].step # "sendRequest") => ~sent
  /\ sent => StepNames = RequiredSteps
  /\ (\E i \in 1..Len(steps) : steps[i].step = "sendRequest") => sent

\* Close failed after the parts were written: returned, nothing sent
FailedEncodeWitness ==
  /\ pc = "returned"
  /\ ~sent
  /\ Len(steps) >= 5
  /\ steps[Len(steps)] = [step |-> "Close", err |-> "err"]

====
